---- MODULE Spec2Model ----
(***************************************************************************)
(* Nexus Analytics: the Datadog metrics client (app/core/datadog_config.py)*)
(* and the HTTP layer that uses it (app/main.py).                          *)
(*                                                                         *)
(* Scheduling.  Every endpoint and the middleware are `async def`, so they *)
(* run on the event loop and are interleaved only at an `await`.  The only *)
(* await in the sources is `await call_next(request)` in the middleware,   *)
(* so one request is three atomic steps: the middleware up to call_next,   *)
(* the route handler (with the HTTPException handler, when it raises one), *)
(* and the middleware after call_next.                                     *)
(*                                                                         *)
(* Environment.  statsd.* is the external transport.  The client does not  *)
(* catch around it, so each transport call either returns or raises; the   *)
(* model draws that outcome per call.  psutil sampling is taken to return. *)
(***************************************************************************)
EXTENDS Integers, Sequences, FiniteSets, TLC

\* Number of HTTP requests of one run.
NumReq == 2

\* Number of transport calls that raise in one run.
MaxFaults == 2

Requests == 1..NumReq

VARIABLES
    phase,                  \* process lifecycle
    initialized,            \* DatadogMetrics.initialized
    setup,                  \* how _initialize_datadog ended (history)
    construct_raised,       \* did DatadogMetrics() raise (history)
    analytics_query_count,  \* the module-level query counter
    post_calls,             \* requests in the order process_analytics_query ran (history)
    statsd_seen,            \* metric names the transport was called with
    faults,                 \* transport calls that raised so far
    pc,                     \* per request: position in datadog_middleware
    req,                    \* per request: method, path, body
    mwlog,                  \* per request: the middleware's metric calls
    hres,                   \* per request: what call_next produced
    error_from,             \* per request: where the except branch was entered from
    out                     \* per request: what leaves the middleware

vars == <<phase, initialized, setup, construct_raised, analytics_query_count, post_calls,
          statsd_seen, faults, pc, req, mwlog, hres, error_from, out>>

-----------------------------------------------------------------------------
\* Values

NoExc == [type |-> "none", site |-> "none"]

\* An exception raised by the transport inside the call that emits `name`.
TransportFault(name) == [type |-> "OSError", site |-> name]

\* raise HTTPException(status_code=500, detail="Query processing failed")
QueryFailed == [type |-> "HTTPException", site |-> "Query processing failed"]

\* A JSON body: the fields of the four routes' answers and of the error
\* envelope; a field a body does not have is "" (or -1).
NoBody == [kind |-> "none", message |-> "", status |-> "", system_metrics |-> {},
           query_id |-> "", query_type |-> "", queries |-> -1,
           datadog_initialized |-> FALSE, detail |-> ""]

NoResult == [kind |-> "none", status |-> 0, body |-> NoBody, exc |-> NoExc]

Response(status, body) ==
    [kind |-> "response", status |-> status, body |-> body, exc |-> NoExc]

Raised(e) == [kind |-> "raised", status |-> 0, body |-> NoBody, exc |-> e]

NoReq == [method |-> "", path |-> "", query_type |-> ""]

\* The routes of the application and the bodies a POST is tried with.
Routes == { [method |-> "GET",  path |-> "/"],
            [method |-> "GET",  path |-> "/health"],
            [method |-> "POST", path |-> "/analytics/query"],
            [method |-> "GET",  path |-> "/metrics/summary"] }

\* query.get("query_type") of the bodies a POST is tried with.
QueryTypes == {"user_activity"}

-----------------------------------------------------------------------------
\* DatadogMetrics

\* The thread of one synchronous block: names handed to the transport so far,
\* the number of transport calls made and of those that raised, and the
\* exception in flight, if any.
Thread(seen) == [seen |-> seen, n |-> 0, raises |-> 0, exc |-> NoExc]

\* The same block after an except clause caught the exception in flight.
Caught(t) == [t EXCEPT !.exc = NoExc]

\* statsd.increment / gauge / histogram / timing: the call reaches the
\* transport, which returns or raises.
StatsdCall(t, name, fault) ==
    [seen |-> t.seen \cup {name},
     n    |-> t.n + 1,
     raises |-> t.raises + (IF fault THEN 1 ELSE 0),
     exc  |-> IF fault THEN TransportFault(name) ELSE NoExc]

IncrementCounterUnguarded(t, name, fault) ==
    IF t.exc # NoExc THEN t ELSE StatsdCall(t, name, fault)

increment_counter(t, name, fault) ==
    IF t.exc # NoExc THEN t
    ELSE IF initialized THEN StatsdCall(t, name, fault) ELSE t

record_gauge(t, name, fault) ==
    IF t.exc # NoExc THEN t
    ELSE IF initialized THEN StatsdCall(t, name, fault) ELSE t

record_histogram(t, name, fault) ==
    IF t.exc # NoExc THEN t
    ELSE IF initialized THEN StatsdCall(t, name, fault) ELSE t

record_timing(t, name, fault) ==
    IF t.exc # NoExc THEN t
    ELSE IF initialized THEN StatsdCall(t, name, fault) ELSE t

\* try: three gauges; except Exception: log.  Nothing leaves the method.
track_system_metrics(t, f1, f2, f3) ==
    IF ~initialized THEN t
    ELSE LET g1 == record_gauge(t,  "nexus.analytics.system.cpu_percent", f1)
             g2 == record_gauge(g1, "nexus.analytics.system.memory_percent", f2)
             g3 == record_gauge(g2, "nexus.analytics.system.memory_available_mb", f3)
         IN  Caught(g3)

\* get_system_metrics(): the three fields of the snapshot.
get_system_metrics == {"cpu_percent", "memory_percent", "memory_available_mb"}

\* The body of _initialize_datadog's try block: how far it gets.
\* api_key: "None" (unset), "" or "key"; port_ok: int(DD_DOGSTATSD_PORT)
\* parses; init_ok: datadog.initialize(**options) returns.
SetupBody(api_key, port_ok, agentless, init_ok) ==
    IF api_key \in {"None", ""} THEN "no_key"
    ELSE IF ~port_ok THEN "raised"
    ELSE IF ~init_ok THEN "raised"
    ELSE "complete"

InitializeDatadogUncaught(api_key, port_ok, agentless, init_ok) ==
    LET o == SetupBody(api_key, port_ok, agentless, init_ok)
    IN  [initialized |-> o # "no_key", raised |-> o = "raised", setup |-> o]

\* _initialize_datadog: try / except Exception around the whole body.
initialize_datadog(api_key, port_ok, agentless, init_ok) ==
    LET o == SetupBody(api_key, port_ok, agentless, init_ok)
    IN  [initialized |-> o = "complete", raised |-> FALSE, setup |-> o]

-----------------------------------------------------------------------------
\* main.py: helpers

MethodTag(r) == "method:" \o req[r].method

\* The path of whichever request came first, not of this one.
PathTagOfFirst(r) == "path:" \o req[1].path

PathTag(r) == "path:" \o req[r].path
StatusTag(status) == "status:" \o ToString(status)
ErrorTypeTag(e) == "error_type:" \o e.type

\* One metric call of the middleware on the client, and whether the client
\* handed it to the transport.
MwCall(name, tags, before, after) ==
    [name |-> name, tags |-> tags, sent |-> after.n > before.n]

\* A lost update: the counter keeps its value.
IncrementLost(c) == c

\* analytics_query_count += 1
Increment(c) == c + 1

\* The id formatted from the value before the increment.
QueryIdStale(c) == "query_" \o ToString(c - 1)

\* f"query_{analytics_query_count}"
QueryId(c) == "query_" \o ToString(c)

\* http_exception_handler: count the error, answer with the JSON envelope.
http_exception_handler(t, exc, status, fault) ==
    LET c == increment_counter(t, "nexus.analytics.http.error", fault)
    IN  [t |-> c,
         res |-> IF c.exc # NoExc THEN Raised(c.exc)
                 ELSE Response(status, [NoBody EXCEPT !.kind = "error",
                                                      !.detail = exc.site])]

\* The except branch of datadog_middleware: count the error, then `raise`.
\* A raise inside the branch is what leaves it instead.
ExceptBranch(t, r, e, fault) ==
    LET c == increment_counter(Caught(t), "nexus.analytics.request.error", fault)
    IN  [t |-> c,
         call |-> MwCall("nexus.analytics.request.error",
                         <<MethodTag(r), PathTag(r), ErrorTypeTag(e)>>, Caught(t), c),
         res |-> IF c.exc # NoExc THEN Raised(c.exc) ELSE Raised(e)]

-----------------------------------------------------------------------------
Init ==
    /\ phase = "import"
    /\ initialized = FALSE
    /\ setup = "none"
    /\ construct_raised = FALSE
    /\ analytics_query_count = 0
    /\ post_calls = <<>>
    /\ statsd_seen = {}
    /\ faults = 0
    /\ pc = [r \in Requests |-> "IDLE"]
    /\ req = [r \in Requests |-> NoReq]
    /\ mwlog = [r \in Requests |-> <<>>]
    /\ hres = [r \in Requests |-> NoResult]
    /\ error_from = [r \in Requests |-> "none"]
    /\ out = [r \in Requests |-> NoResult]

\* The number of raises a block was offered.
Offered(fs) == Cardinality({i \in DOMAIN fs : fs[i]})

\* The transport after a block that was offered the raises fs: what it has
\* seen, and the raises it used up.  A raise offered to a call that is never
\* made is no different input, so only the offers that were used are drawn.
Transport(t, fs) ==
    /\ Offered(fs) = t.raises
    /\ faults + t.raises <= MaxFaults
    /\ faults' = faults + t.raises
    /\ statsd_seen' = t.seen

reqvars == <<post_calls, pc, req, mwlog, hres, error_from, out>>

\* datadog_metrics = DatadogMetrics(), at import of app.core.datadog_config.
Construct ==
    /\ phase = "import"
    /\ \E api_key \in {"None", "", "key"}, port_ok \in BOOLEAN,
          agentless \in BOOLEAN, init_ok \in BOOLEAN :
         LET c == initialize_datadog(api_key, port_ok, agentless, init_ok)
         IN  /\ initialized' = c.initialized
             /\ construct_raised' = c.raised
             /\ setup' = c.setup
             /\ phase' = IF c.raised THEN "failed" ELSE "constructed"
    /\ UNCHANGED <<analytics_query_count, statsd_seen, faults, reqvars>>

\* startup_event: a raise here fails the application's startup.
Startup ==
    /\ phase = "constructed"
    /\ \E fault \in BOOLEAN :
         LET t == increment_counter(Thread(statsd_seen),
                                    "nexus.analytics.service.startup", fault)
         IN  /\ Transport(t, <<fault>>)
             /\ phase' = IF t.exc # NoExc THEN "failed" ELSE "serving"
    /\ UNCHANGED <<initialized, setup, construct_raised, analytics_query_count,
                   reqvars>>

\* shutdown_event, once no request is in flight.
Shutdown ==
    /\ phase = "serving"
    /\ \A r \in Requests : pc[r] \in {"IDLE", "DONE"}
    /\ \E fault \in BOOLEAN :
         LET t == increment_counter(Thread(statsd_seen),
                                    "nexus.analytics.service.shutdown", fault)
         IN  Transport(t, <<fault>>)
    /\ phase' = "stopped"
    /\ UNCHANGED <<initialized, setup, construct_raised, analytics_query_count,
                   reqvars>>

\* A request reaches datadog_middleware (start_time = time.time()).
Arrive(r) ==
    /\ phase = "serving"
    /\ pc[r] = "IDLE"
    /\ IF r = 1 THEN TRUE ELSE pc[r - 1] # "IDLE"
    /\ \E route \in Routes, qt \in QueryTypes :
         /\ req' = [req EXCEPT ![r] = [method |-> route.method, path |-> route.path,
                                       query_type |-> IF route.method = "POST"
                                                      THEN qt ELSE ""]]
    /\ pc' = [pc EXCEPT ![r] = "START"]
    /\ UNCHANGED <<phase, initialized, setup, construct_raised,
                   analytics_query_count, post_calls, statsd_seen, faults, mwlog,
                   hres, error_from, out>>

\* datadog_middleware up to `await call_next(request)`.  The two calls are
\* outside the try block: a raise in the first leaves the middleware.
PreEmit(r) ==
    /\ pc[r] = "START"
    /\ \E f1 \in BOOLEAN, f2 \in BOOLEAN, f3 \in BOOLEAN, f4 \in BOOLEAN :
         LET t0 == Thread(statsd_seen)
             t1 == increment_counter(t0, "nexus.analytics.request.count", f1)
             t2 == track_system_metrics(t1, f2, f3, f4)
         IN  /\ mwlog' = [mwlog EXCEPT ![r] = Append(@,
                            MwCall("nexus.analytics.request.count",
                                   <<MethodTag(r), PathTag(r)>>, t0, t1))]
             /\ IF t1.exc # NoExc
                THEN /\ Transport(t1, <<f1, f2, f3, f4>>)
                     /\ out' = [out EXCEPT ![r] = Raised(t1.exc)]
                     /\ pc' = [pc EXCEPT ![r] = "DONE"]
                ELSE /\ Transport(t2, <<f1, f2, f3, f4>>)
                     /\ out' = out
                     /\ pc' = [pc EXCEPT ![r] = "DOWNSTREAM"]
    /\ UNCHANGED <<phase, initialized, setup, construct_raised,
                   analytics_query_count, post_calls, req, hres, error_from>>

\* What each route handler does, as [count, t, res]: the counter, the
\* transport thread and the handler's result after it ran.

\* root()
root(r, t) ==
    [count |-> analytics_query_count, t |-> t,
     res |-> Response(200, [NoBody EXCEPT
                 !.kind = "root",
                 !.message = "Welcome to Nexus Analytics Service"])]

\* health_check(): the counter call is not guarded by a try.
health_check(r, t, fault) ==
    LET c == increment_counter(t, "nexus.analytics.health_check", fault)
    IN  [count |-> analytics_query_count, t |-> c,
         res |-> IF c.exc # NoExc THEN Raised(c.exc)
                 ELSE Response(200, [NoBody EXCEPT
                          !.kind = "health",
                          !.status = "healthy",
                          !.system_metrics = get_system_metrics])]

\* process_analytics_query(query): f1..f3 are the three emissions of the
\* try body, f4 the one of the except clause, f5 the one of the
\* HTTPException handler.
process_analytics_query(r, t, f1, f2, f3, f4, f5) ==
    LET count  == Increment(analytics_query_count)
        t1     == increment_counter(t, "nexus.analytics.queries.processed", f1)
        t2     == record_gauge(t1, "nexus.analytics.queries.total", f2)
        result == [NoBody EXCEPT
                      !.kind = "query",
                      !.query_id = QueryId(count),
                      !.query_type = req[r].query_type,
                      !.status = "processed"]
        t3     == record_timing(t2, "nexus.analytics.queries.processing_time", f3)
        e1     == increment_counter(Caught(t3), "nexus.analytics.queries.error", f4)
        h      == http_exception_handler(e1, QueryFailed, 500, f5)
    IN  IF t3.exc = NoExc
        THEN [count |-> count, t |-> t3, res |-> Response(200, result)]
        ELSE IF e1.exc # NoExc
        THEN [count |-> count, t |-> e1, res |-> Raised(e1.exc)]
        ELSE [count |-> count, t |-> h.t, res |-> h.res]

\* A summary that counts itself as a query.
MetricsSummaryCounting(r, t) ==
    [count |-> analytics_query_count + 1, t |-> t,
     res |-> Response(200, [NoBody EXCEPT
                 !.kind = "summary",
                 !.queries = analytics_query_count + 1,
                 !.system_metrics = get_system_metrics,
                 !.datadog_initialized = initialized])]

\* metrics_summary()
metrics_summary(r, t) ==
    [count |-> analytics_query_count, t |-> t,
     res |-> Response(200, [NoBody EXCEPT
                 !.kind = "summary",
                 !.queries = analytics_query_count,
                 !.system_metrics = get_system_metrics,
                 !.datadog_initialized = initialized])]

\* call_next(request): the route handler runs; a response goes back to the
\* middleware's try body, an exception to its except clause.
Handler(r) ==
    /\ pc[r] = "DOWNSTREAM"
    /\ \E f1 \in BOOLEAN, f2 \in BOOLEAN, f3 \in BOOLEAN, f4 \in BOOLEAN,
          f5 \in BOOLEAN :
         LET t == Thread(statsd_seen)
             h == CASE req[r].path = "/" -> root(r, t)
                    [] req[r].path = "/health" -> health_check(r, t, f1)
                    [] req[r].path = "/analytics/query" ->
                           process_analytics_query(r, t, f1, f2, f3, f4, f5)
                    [] req[r].path = "/metrics/summary" -> metrics_summary(r, t)
         IN  /\ analytics_query_count' = h.count
             /\ post_calls' = IF req[r].path = "/analytics/query"
                              THEN Append(post_calls, r) ELSE post_calls
             /\ Transport(h.t, <<f1, f2, f3, f4, f5>>)
             /\ hres' = [hres EXCEPT ![r] = h.res]
             /\ pc' = [pc EXCEPT ![r] = IF h.res.kind = "response"
                                        THEN "POST_EMIT" ELSE "ERROR"]
    /\ UNCHANGED <<phase, initialized, setup, construct_raised, req, mwlog,
                   error_from, out>>

\* datadog_middleware after call_next returned a response: the rest of the
\* try body, and the except clause when one of its emissions raises.
PostEmit(r) ==
    /\ pc[r] = "POST_EMIT"
    /\ \E f1 \in BOOLEAN, f2 \in BOOLEAN, f3 \in BOOLEAN :
         LET status == hres[r].status
             t0 == Thread(statsd_seen)
             t1 == record_histogram(t0, "nexus.analytics.request.duration", f1)
             c1 == MwCall("nexus.analytics.request.duration",
                          <<MethodTag(r), PathTag(r), StatusTag(status)>>, t0, t1)
             ok == 200 <= status /\ status < 300
             t2 == IF ok THEN increment_counter(t1, "nexus.analytics.request.success", f2)
                   ELSE t1
             c2 == MwCall("nexus.analytics.request.success",
                          <<MethodTag(r), PathTag(r)>>, t1, t2)
             l2 == IF t1.exc = NoExc /\ ok THEN <<c1, c2>> ELSE <<c1>>
             x  == ExceptBranch(t2, r, t2.exc, f3)
         IN  IF t2.exc = NoExc
             THEN /\ Transport(t2, <<f1, f2, f3>>)
                  /\ mwlog' = [mwlog EXCEPT ![r] = @ \o l2]
                  /\ out' = [out EXCEPT ![r] = hres[r]]
                  /\ error_from' = error_from
             ELSE /\ Transport(x.t, <<f1, f2, f3>>)
                  /\ mwlog' = [mwlog EXCEPT ![r] = @ \o l2 \o <<x.call>>]
                  /\ out' = [out EXCEPT ![r] = x.res]
                  /\ error_from' = [error_from EXCEPT ![r] = "POST_EMIT"]
    /\ pc' = [pc EXCEPT ![r] = "DONE"]
    /\ UNCHANGED <<phase, initialized, setup, construct_raised,
                   analytics_query_count, post_calls, req, hres>>

\* datadog_middleware after call_next raised: the except clause.
ErrorBranch(r) ==
    /\ pc[r] = "ERROR"
    /\ \E f1 \in BOOLEAN :
         LET x == ExceptBranch(Thread(statsd_seen), r, hres[r].exc, f1)
         IN  /\ Transport(x.t, <<f1>>)
             /\ mwlog' = [mwlog EXCEPT ![r] = Append(@, x.call)]
             /\ out' = [out EXCEPT ![r] = x.res]
    /\ error_from' = [error_from EXCEPT ![r] = "DOWNSTREAM"]
    /\ pc' = [pc EXCEPT ![r] = "DONE"]
    /\ UNCHANGED <<phase, initialized, setup, construct_raised,
                   analytics_query_count, post_calls, req, hres>>

Next ==
    \/ Construct
    \/ Startup
    \/ Shutdown
    \/ \E r \in Requests : Arrive(r)
    \/ \E r \in Requests : PreEmit(r)
    \/ \E r \in Requests : Handler(r)
    \/ \E r \in Requests : PostEmit(r)
    \/ \E r \in Requests : ErrorBranch(r)

Spec == Init /\ [][Next]_vars

-----------------------------------------------------------------------------
\* Vocabulary of the properties

IsPost(r) == req[r].path = "/analytics/query"

\* The route handler of r has run.
Ran(r) == hres[r].kind # "none"

\* The handler of r returned a processed query (with its query_id).
Processed(r) == hres[r].kind = "response" /\ hres[r].body.kind = "query"

\* The client of r was answered with a processed query.
Delivered(r) ==
    pc[r] = "DONE" /\ out[r].kind = "response" /\ out[r].body.kind = "query"

Posts == {r \in Requests : pc[r] # "IDLE" /\ IsPost(r)}

QueryIds(n) == {"query_" \o ToString(k) : k \in 1..n}

\* The number a query_id was formatted from.
IdNum(id) == CHOOSE k \in 0..(NumReq + 1) : "query_" \o ToString(k) = id

\* The middleware's calls of r for the metric `name`.
CallsOf(r, name) == {i \in DOMAIN mwlog[r] : mwlog[r][i].name = name}

TagsOfRequest(r, i) ==
    /\ mwlog[r][i].tags[1] = "method:" \o req[r].method
    /\ mwlog[r][i].tags[2] = "path:" \o req[r].path

-----------------------------------------------------------------------------
\* The POSTs whose handler has run.
Handled == {r \in Posts : Ran(r)}

C2_OneCountAtMostOneDuration ==
    \A r \in Requests :
        LET counts == CallsOf(r, "nexus.analytics.request.count")
            durs   == CallsOf(r, "nexus.analytics.request.duration")
        IN  /\ Cardinality(counts) = (IF pc[r] \in {"IDLE", "START"} THEN 0 ELSE 1)
            /\ Cardinality(durs) <= 1
            /\ \A i \in counts \cup durs :
                 TagsOfRequest(r, i) /\ mwlog[r][i].sent = initialized

\* One request answered after its duration was recorded, one whose handler
\* raised, both through an initialized client.
C2_Witness ==
    /\ initialized
    /\ pc[1] = "DONE" /\ out[1].kind = "response"
    /\ CallsOf(1, "nexus.analytics.request.duration") # {}
    /\ pc[2] = "DONE" /\ hres[2].kind = "raised"
    /\ CallsOf(2, "nexus.analytics.request.duration") = {}
    /\ req[1].path # req[2].path

\* C3: while initialized is false the transport is never called, whatever
\* calls are made on the client, and initialized stays false.
C3_UninitializedIsSilent ==
    /\ [](~initialized =>
            /\ statsd_seen = {}
            /\ faults = 0
            /\ \A r \in Requests : \A i \in DOMAIN mwlog[r] : ~mwlog[r][i].sent)
    /\ [][(phase # "import" /\ ~initialized) => ~initialized']_vars

\* An uninitialized client after a POST and a health check ran to the end
\* (all five emission methods were called).
C3_Witness ==
    /\ ~initialized
    /\ \E r1, r2 \in Requests :
         /\ Delivered(r1) /\ Len(mwlog[r1]) = 3
         /\ req[r2].path = "/health" /\ pc[r2] = "DONE" /\ Len(mwlog[r2]) = 3

\* C4, as stated: when the handler raised, the middleware emits one
\* request.error tagged method, path and exception type, and what leaves the
\* middleware is that same exception.
C4_ReraisesHandlerException ==
    \A r \in Requests :
        (pc[r] = "DONE" /\ hres[r].kind = "raised") =>
            LET errs == CallsOf(r, "nexus.analytics.request.error")
            IN  /\ Cardinality(errs) = 1
                /\ \A i \in errs :
                     /\ TagsOfRequest(r, i)
                     /\ mwlog[r][i].tags[3] = "error_type:" \o hres[r].exc.type
                /\ out[r] = Raised(hres[r].exc)

\* C5: the first call returns query_1 and, after it, the second query_2;
\* over all calls, failing ones included, the ids returned are strictly
\* increasing in call order, so none is returned twice.
C5_IdsIncrease ==
    LET n == Len(post_calls)
        id(i) == hres[post_calls[i]].body.query_id
    IN  /\ (n >= 1 /\ Processed(post_calls[1])) => id(1) = "query_1"
        /\ (n >= 2 /\ Processed(post_calls[1]) /\ Processed(post_calls[2]))
               => id(2) = "query_2"
        /\ \A i, j \in 1..n :
             (i < j /\ Processed(post_calls[i]) /\ Processed(post_calls[j]))
                 => /\ IdNum(id(i)) < IdNum(id(j))
                    /\ id(i) # id(j)

\* Two calls, the second request's first: it failed, and the call after it
\* returned query_2.
C5_Witness ==
    /\ post_calls = <<2, 1>>
    /\ ~Processed(2)
    /\ Processed(1)
    /\ hres[1].body.query_id = "query_2"

\* C6, as stated: a POST whose processing failed ends as the HTTP 500
\* {"detail": "Query processing failed"}, never as the internal exception.
C6_FailureIs500Detail ==
    \A r \in Posts :
        (Ran(r) /\ ~Processed(r)) =>
            /\ hres[r].kind = "response"
            /\ hres[r].status = 500
            /\ hres[r].body.detail = "Query processing failed"

\* C7, as stated: whenever the health handler has run, it returned status
\* "healthy" with the three system metrics.
C7_HealthAlwaysHealthy ==
    \A r \in Requests :
        (req[r].path = "/health" /\ Ran(r)) =>
            /\ hres[r].kind = "response"
            /\ hres[r].body.status = "healthy"
            /\ hres[r].body.system_metrics =
                   {"cpu_percent", "memory_percent", "memory_available_mb"}

\* C8: construction never raises; initialized is true exactly when setup ran
\* to completion, and nothing after construction changes it.
C8_ConstructionNeverRaises ==
    /\ [](/\ ~construct_raised
          /\ phase = "import" => ~initialized
          /\ phase # "import" => (initialized <=> setup = "complete"))
    /\ [][phase # "import" => initialized' = initialized]_vars

\* A client whose setup raised, still disabled after serving a request.
C8_Witness ==
    /\ setup = "raised"
    /\ ~initialized
    /\ \E r \in Requests : pc[r] = "DONE"

\* C9: the summary reports the counter as it is; when every POST so far was
\* answered with a processed query, that is their number N; only the POST
\* handler changes the counter.
C9_SummaryIsCounter ==
    /\ [][\A r \in Requests :
            (pc[r] = "DOWNSTREAM" /\ pc'[r] # "DOWNSTREAM"
                /\ req[r].path = "/metrics/summary")
            => /\ hres'[r].body.queries = analytics_query_count
               /\ (\A q \in Posts : Delivered(q))
                    => hres'[r].body.queries = Cardinality(Posts)]_vars
    /\ [][analytics_query_count' # analytics_query_count
            => \E r \in Requests :
                 IsPost(r) /\ pc[r] = "DOWNSTREAM" /\ pc'[r] # "DOWNSTREAM"]_vars

\* Every POST so far answered, then a summary that reports their number.
C9_Witness ==
    /\ Posts # {} /\ \A q \in Posts : Delivered(q)
    /\ \E r \in Requests :
         /\ req[r].path = "/metrics/summary"
         /\ Ran(r)
         /\ hres[r].body.queries = Cardinality(Posts)

\* C10, as stated: the except branch is entered only from DOWNSTREAM, so
\* request.error is emitted only for a request whose handler raised.
C10_ErrorOnlyFromDownstream ==
    \A r \in Requests :
        /\ error_from[r] \in {"none", "DOWNSTREAM"}
        /\ CallsOf(r, "nexus.analytics.request.error") # {}
               => hres[r].kind = "raised"
====
